---- MODULE Spec2Model ----
(***************************************************************************)
(* Model of the markdown-to-Vue compile pipeline of plugin-md:             *)
(*   packages/plugin-md/src/md/markdownToVue.ts    (compile, cache, meta)  *)
(*   packages/plugin-md/src/md/utils/parseHeader.ts (header sanitizer)     *)
(*   packages/plugin-md/src/md/utils/tsToJs.ts     (transpiler wrapper)    *)
(*                                                                         *)
(* Text is a sequence of characters, each a one-character string.  The     *)
(* grave accent (U+0060) cannot be written inside a TLA+ string literal,   *)
(* so that one character is the element Backtick.                          *)
(***************************************************************************)
EXTENDS Integers, Sequences, FiniteSets, TLC

VARIABLES
    cache,      \* LRUCache contents: source |-> MarkdownCompileResult
    lru,        \* keys of the cache, least recently used first
    files,      \* the file system: the paths at which a file exists
    sep,        \* the host's path separator (path.sep)
    inv,        \* the compile invocations in flight or finished, per caller
    input,      \* argument of the pure function under study
    output,     \* its results
    step        \* "idle" | "start" | "done": position of the pure-function run

vars == <<cache, lru, files, sep, inv, input, output, step>>

(***************************************************************************)
(* Text                                                                    *)
(***************************************************************************)
Backtick == "BACKTICK"

Str(s) == [i \in 1..Len(s) |-> SubSeq(s, i, i)]

Empty == <<>>

\* the characters JavaScript's \s matches, among those the model uses
IsSpace(c) == c \in {" ", "\t", "\n", "\r", "\f"}

\* the characters JavaScript's . does not match
IsLineTerminator(c) == c \in {"\n", "\r"}

StartsAt(s, i, pat) ==
    /\ i >= 1
    /\ i + Len(pat) - 1 <= Len(s)
    /\ SubSeq(s, i, i + Len(pat) - 1) = pat

RECURSIVE ReplaceFrom(_, _, _, _)
ReplaceFrom(s, i, pat, rep) ==
    IF i > Len(s) THEN Empty
    ELSE IF StartsAt(s, i, pat)
         THEN rep \o ReplaceFrom(s, i + Len(pat), pat, rep)
         ELSE <<s[i]>> \o ReplaceFrom(s, i + 1, pat, rep)

\* String.prototype.replace(/literal/g, rep) for a non-empty literal
ReplaceAll(s, pat, rep) == ReplaceFrom(s, 1, pat, rep)

Contains(s, pat) == \E i \in 1..Len(s) : StartsAt(s, i, pat)

Occurrences(s, pat) == Cardinality({i \in 1..Len(s) : StartsAt(s, i, pat)})

\* last index k >= from - 1 with s[from..k] all satisfying the class
SpaceRun(s, from) ==
    LET ok(k) == \A j \in from..k : IsSpace(s[j])
    IN  CHOOSE k \in (from - 1)..Len(s) :
            ok(k) /\ (k = Len(s) \/ ~IsSpace(s[k + 1]))

DotRun(s, from) ==
    LET ok(k) == \A j \in from..k : ~IsLineTerminator(s[j])
    IN  CHOOSE k \in (from - 1)..Len(s) :
            ok(k) /\ (k = Len(s) \/ IsLineTerminator(s[k + 1]))

CharRun(s, from, c) ==
    LET ok(k) == \A j \in from..k : s[j] = c
    IN  CHOOSE k \in (from - 1)..Len(s) :
            ok(k) /\ (k = Len(s) \/ s[k + 1] # c)

NotCharRun(s, from, c) ==
    LET ok(k) == \A j \in from..k : s[j] # c
    IN  CHOOSE k \in (from - 1)..Len(s) :
            ok(k) /\ (k = Len(s) \/ s[k + 1] = c)

\* String.prototype.trim
Trim(s) ==
    LET idx == {i \in 1..Len(s) : ~IsSpace(s[i])}
    IN  IF idx = {} THEN Empty
        ELSE SubSeq(s, CHOOSE i \in idx : \A j \in idx : i <= j,
                       CHOOSE i \in idx : \A j \in idx : i >= j)

Max(S) == CHOOSE x \in S : \A y \in S : x >= y
Min(S) == CHOOSE x \in S : \A y \in S : x <= y

(***************************************************************************)
(* Template escaper (markdownToVue.ts 50-52, 98-100, 119-121)              *)
(***************************************************************************)
\* faulty variant: the break marker put after the sequence, not inside it
EscapeMarkerAfter(html) ==
    ReplaceAll(ReplaceAll(html, Str("import.meta"), Str("import.meta<wbr/>")),
               Str("process.env"), Str("process.env<wbr/>"))

EscapeTemplate(html) ==
    ReplaceAll(ReplaceAll(html, Str("import.meta"), Str("import.<wbr/>meta")),
               Str("process.env"), Str("process.<wbr/>env"))

(***************************************************************************)
(* Header sanitizer (utils/parseHeader.ts)                                 *)
(***************************************************************************)
\* unescapeHtml: five literal replacements, in this order
unescapeHtml(html) ==
    LET a == ReplaceAll(html, Str("&quot;"), Str("\""))
        b == ReplaceAll(a, Str("&#39;"), Str("'"))
        c == ReplaceAll(b, Str("&#x3A;"), Str(":"))
        d == ReplaceAll(c, Str("&lt;"), Str("<"))
    IN  ReplaceAll(d, Str("&gt;"), Str(">"))

NoMatch == [ok |-> FALSE, end |-> 0, rep |-> Empty]

\* /(\[(.[^\]]+)\]\((.[^)]+)\))/ at position i; the replacement is $2
LinkMatchAt(s, i) ==
    IF ~(i + 1 <= Len(s) /\ s[i] = "[" /\ ~IsLineTerminator(s[i + 1]))
    THEN NoMatch
    ELSE LET a == NotCharRun(s, i + 2, "]")
         IN  IF ~(a >= i + 2 /\ a + 3 <= Len(s) /\ s[a + 1] = "]"
                  /\ s[a + 2] = "(" /\ ~IsLineTerminator(s[a + 3]))
             THEN NoMatch
             ELSE LET b == NotCharRun(s, a + 4, ")")
                  IN  IF b >= a + 4 /\ b + 1 <= Len(s)
                      THEN [ok |-> TRUE, end |-> b + 2,
                            rep |-> SubSeq(s, i + 1, a)]
                      ELSE NoMatch

\* the delimiters (`|\*{1,3}|_) can take at position i, in the order the
\* regex engine tries them (the greedy \*{1,3} longest first)
DelimiterLengths(s, i) ==
    IF i > Len(s) THEN <<>>
    ELSE IF s[i] = Backtick \/ s[i] = "_" THEN <<1>>
    ELSE IF s[i] = "*"
         THEN LET n == Min({3, CharRun(s, i, "*") - i + 1})
              IN  [k \in 1..n |-> n + 1 - k]
         ELSE <<>>

\* the lazy (.*?[^\\])\1 after a delimiter of length L at i: the lengths k of
\* .*? for which the rest matches
TokenBodies(s, i, L) ==
    {k \in 0..Len(s) :
        /\ i + L + k <= Len(s)
        /\ \A j \in (i + L)..(i + L + k - 1) : ~IsLineTerminator(s[j])
        /\ s[i + L + k] # "\\"
        /\ StartsAt(s, i + L + k + 1, SubSeq(s, i, i + L - 1))}

\* /(`|\*{1,3}|_)(.*?[^\\])\1/ at position i; the replacement is $2
TokenMatchAt(s, i) ==
    LET ls == DelimiterLengths(s, i)
        good == {n \in 1..Len(ls) : TokenBodies(s, i, ls[n]) # {}}
    IN  IF good = {} THEN NoMatch
        ELSE LET L == ls[Min(good)]
                 k == Min(TokenBodies(s, i, L))
             IN  [ok |-> TRUE, end |-> i + L + k + 1 + L,
                  rep |-> SubSeq(s, i + L, i + L + k)]

\* /(\\)(\*|_|`|\!|<|\$)/ at position i; the replacement is $2
EscapeMatchAt(s, i) ==
    IF i + 1 <= Len(s) /\ s[i] = "\\"
       /\ s[i + 1] \in {"*", "_", Backtick, "!", "<", "$"}
    THEN [ok |-> TRUE, end |-> i + 2, rep |-> <<s[i + 1]>>]
    ELSE NoMatch

RECURSIVE ReplaceLinks(_, _)
ReplaceLinks(s, i) ==
    IF i > Len(s) THEN Empty
    ELSE LET m == LinkMatchAt(s, i)
         IN  IF m.ok THEN m.rep \o ReplaceLinks(s, m.end)
             ELSE <<s[i]>> \o ReplaceLinks(s, i + 1)

RECURSIVE ReplaceTokens(_, _)
ReplaceTokens(s, i) ==
    IF i > Len(s) THEN Empty
    ELSE LET m == TokenMatchAt(s, i)
         IN  IF m.ok THEN m.rep \o ReplaceTokens(s, m.end)
             ELSE <<s[i]>> \o ReplaceTokens(s, i + 1)

RECURSIVE ReplaceEscapes(_, _)
ReplaceEscapes(s, i) ==
    IF i > Len(s) THEN Empty
    ELSE LET m == EscapeMatchAt(s, i)
         IN  IF m.ok THEN m.rep \o ReplaceEscapes(s, m.end)
             ELSE <<s[i]>> \o ReplaceEscapes(s, i + 1)

\* faulty variant: the delimiter-pair replace left out
removeMarkdownTokensNoPairs(str) == ReplaceEscapes(ReplaceLinks(str, 1), 1)

removeMarkdownTokens(str) ==
    ReplaceEscapes(ReplaceTokens(ReplaceLinks(str, 1), 1), 1)

\* /(^|[^><`\\])<.*>([^><`]|$)/ at position i, with the first alternative
\* (TRUE: ^, FALSE: one character) chosen; the replacement is $1$2
HtmlMatchWith(s, i, atStart) ==
    LET p == IF atStart THEN i ELSE i + 1
        g1 == IF atStart THEN Empty ELSE <<s[i]>>
        pre == IF atStart THEN i = 1
               ELSE s[i] \notin {">", "<", Backtick, "\\"}
        closes(e) ==
            /\ e + 1 <= Len(s)
            /\ s[e + 1] = ">"
            /\ \/ e + 2 <= Len(s) /\ s[e + 2] \notin {">", "<", Backtick}
               \/ e + 2 = Len(s) + 1
    IN  IF ~(p <= Len(s) /\ pre /\ s[p] = "<") THEN NoMatch
        ELSE LET E == {e \in p..DotRun(s, p + 1) : closes(e)}
             IN  IF E = {} THEN NoMatch
                 ELSE LET e == Max(E)
                      IN  IF e + 2 <= Len(s)
                          THEN [ok |-> TRUE, end |-> e + 3,
                                rep |-> g1 \o <<s[e + 2]>>]
                          ELSE [ok |-> TRUE, end |-> e + 2, rep |-> g1]

HtmlMatchAt(s, i) ==
    IF HtmlMatchWith(s, i, TRUE).ok THEN HtmlMatchWith(s, i, TRUE)
    ELSE HtmlMatchWith(s, i, FALSE)

RECURSIVE ReplaceHtml(_, _)
ReplaceHtml(s, i) ==
    IF i > Len(s) THEN Empty
    ELSE LET m == HtmlMatchAt(s, i)
         IN  IF m.ok THEN m.rep \o ReplaceHtml(s, m.end)
             ELSE <<s[i]>> \o ReplaceHtml(s, i + 1)

removeNonCodeWrappedHTML(str) == ReplaceHtml(str, 1)

\* compose(unescapeHtml, removeMarkdownTokens, trim): applied left to right
parseHeader(str) == Trim(removeMarkdownTokens(unescapeHtml(str)))

deeplyParseHeader(str) == parseHeader(removeNonCodeWrappedHTML(str))

(***************************************************************************)
(* Page metadata (markdownToVue.ts 149-180)                                *)
(***************************************************************************)
\* JavaScript's undefined: no text, since every element of a text is one
\* character (or Backtick)
Undefined == <<"UNDEFINED">>

\* truthiness of a string-or-undefined value
Truthy(v) == v # Undefined /\ v # Empty

IsLineStart(s, i) == i = 1 \/ IsLineTerminator(s[i - 1])

\* /^\s*#+\s+(.*)/m at line start i: the captured group, or Undefined
HeadingMatchAt(s, i) ==
    LET a == SpaceRun(s, i)
        h == CharRun(s, a + 1, "#")
        w == SpaceRun(s, h + 1)
    IN  IF h >= a + 1 /\ w >= h + 1
        THEN SubSeq(s, w + 1, DotRun(s, w + 1))
        ELSE Undefined

\* content.match(/^\s*#+\s+(.*)/m): group 1 of the leftmost match
HeadingMatch(content) ==
    LET at == {i \in 1..(Len(content) + 1) :
                  IsLineStart(content, i)
                  /\ HeadingMatchAt(content, i) # Undefined}
    IN  IF at = {} THEN Undefined ELSE HeadingMatchAt(content, Min(at))

\* faulty variant: the frontmatter title looked at before the home flag
inferTitleTitleFirst(frontmatter, content) ==
    IF Truthy(frontmatter.title) THEN deeplyParseHeader(frontmatter.title)
    ELSE IF frontmatter.home THEN Str("Home")
    ELSE IF HeadingMatch(content) # Undefined
         THEN deeplyParseHeader(Trim(HeadingMatch(content)))
         ELSE Empty

inferTitle(frontmatter, content) ==
    IF frontmatter.home THEN Str("Home")
    ELSE IF Truthy(frontmatter.title) THEN deeplyParseHeader(frontmatter.title)
    ELSE IF HeadingMatch(content) # Undefined
         THEN deeplyParseHeader(Trim(HeadingMatch(content)))
         ELSE Empty

\* an object's field, present or not
Has(obj, key) == key \in DOMAIN obj

\* a head entry is the array [tag] or [tag, attrs]; attrs defaults to {}:
\* the destructured ([tag, attrs = {}]) of the find callback
IsMetaNamed(entry, name) ==
    /\ entry[1] = Str("meta")
    /\ Len(entry) >= 2
    /\ Has(entry[2], "name") /\ entry[2].name = name
    /\ Has(entry[2], "content") /\ Truthy(entry[2].content)

\* faulty variant: the last matching entry instead of the first
getHeadMetaContentLast(head, name) ==
    IF Len(head) = 0 THEN Undefined
    ELSE LET found == {i \in 1..Len(head) : IsMetaNamed(head[i], name)}
         IN  IF found = {} THEN Undefined
             ELSE head[Max(found)][2].content

getHeadMetaContent(head, name) ==
    IF Len(head) = 0 THEN Undefined
    ELSE LET found == {i \in 1..Len(head) : IsMetaNamed(head[i], name)}
         IN  IF found = {} THEN Undefined
             ELSE head[Min(found)][2].content

inferDescription(frontmatter) ==
    IF ~Has(frontmatter, "head") THEN Empty
    ELSE LET c == getHeadMetaContent(frontmatter.head, Str("description"))
         IN  IF Truthy(c) THEN c ELSE Empty

(***************************************************************************)
(* Demo code generator: the vanilla variant (markdownToVue.ts 101-115,     *)
(* utils/tsToJs.ts)                                                        *)
(***************************************************************************)
\* tsToJs(content) given what ESLint reports for Babel's output of it:
\* lint is report[0].output, Undefined when ESLint changed nothing
tsToJs(content, lint) ==
    IF ~Truthy(content) THEN Empty
    ELSE IF Truthy(lint) THEN Trim(lint) ELSE lint

\* lines 105-110: the script wrapper, only around a non-empty result
\* faulty variant: the wrapper emitted around an empty result too
WrapScriptAlways(js) ==
    Str("<script>\n") \o (IF js = Undefined THEN Empty ELSE Trim(js))
        \o Str("\n</script>")

WrapScript(js) ==
    LET jsCode == IF js = Undefined THEN Undefined ELSE Trim(js)
    IN  IF Truthy(jsCode)
        THEN Str("<script>\n") \o jsCode \o Str("\n</script>")
        ELSE Empty

\* lines 111-115
jsSourceCode(template, jsCode, style) ==
    Trim(Str("\n") \o template \o Str("\n") \o jsCode \o Str("\n") \o style
         \o Str("\n  "))

(***************************************************************************)
(* Paths (markdownToVue.ts 36): slash(path.relative(root, file))           *)
(***************************************************************************)
RECURSIVE Join(_, _)
Join(segs, separator) ==
    IF Len(segs) = 0 THEN Empty
    ELSE IF Len(segs) = 1 THEN Str(segs[1])
    ELSE Str(segs[1]) \o <<separator>> \o Join(Tail(segs), separator)

\* number of leading segments two absolute paths share
CommonPrefix(a, b) ==
    Max({n \in 0..Min({Len(a), Len(b)}) : SubSeq(a, 1, n) = SubSeq(b, 1, n)})

\* path.relative(from, to) on a host with the given separator
Relative(from, to, separator) ==
    LET n == CommonPrefix(from, to)
    IN  Join([i \in 1..(Len(from) - n) |-> ".."] \o SubSeq(to, n + 1, Len(to)),
             separator)

\* slash(path): backslashes to forward slashes, extended-length paths kept
Slash(path) ==
    IF StartsAt(path, 1, Str("\\\\?\\")) THEN path
    ELSE ReplaceAll(path, Str("\\"), Str("/"))

(***************************************************************************)
(* The compile function and its cache (markdownToVue.ts 27-83)             *)
(***************************************************************************)
NProcs == 2
CacheMax == 1024

Procs == 1..NProcs

\* project root and the markdown files compile is called with
Root == <<"docs">>
Paths == {<<"docs", "a.md">>, <<"site", "b.md">>}

\* fs.statSync(file).mtimeMs, a fractional number of milliseconds, held in
\* microseconds; each file keeps the modification time it has
MtimeUs(file) ==
    IF file = <<"docs", "a.md">> THEN 1700499 ELSE 2060500

\* Math.round of a non-negative number of milliseconds held in microseconds
RoundMs(us) == (us + 500) \div 1000

\* The source texts compile is called with.  The renderer and the transpiler
\* are deterministic collaborators, so what they do is a property of the text:
\*   "plain"   renders, holds no demo block
\*   "demo"    renders, holds a demo block whose script transpiles
\*   "badmd"   the renderer throws on it
\*   "badts"   renders, holds a demo block on whose script Babel throws
Sources == {"plain", "demo", "badmd", "badts"}
RenderFails(src) == src = "badmd"
HasDemo(src) == src \in {"demo", "badts"}
TranspileFails(src) == src = "badts"

NoResult == [vueSrc |-> Undefined, pageData |-> Undefined]

Idle == [pc |-> "idle", src |-> "", file |-> <<>>, hit |-> FALSE,
         renders |-> 0, transpiled |-> FALSE, pageData |-> Undefined,
         result |-> NoResult, error |-> ""]

\* lines 54-64: everything but relativePath and lastUpdated is computed from
\* the source text alone and is stood for by it
PageData(src, relativePath, mtimeUs) ==
    [src |-> src, relativePath |-> relativePath,
     lastUpdated |-> RoundMs(mtimeUs)]

\* lines 67-74: the plain wrapper embeds JSON.stringify(pageData)
PlainVueSrc(pageData) == [kind |-> "page", pageData |-> pageData]

\* lines 123-146: the demo wrapper embeds the source's own parts, the
\* transpiled script and pageData.relativePath
DemoVueSrc(pageData) ==
    [kind |-> "demo", src |-> pageData.src,
     relativePath |-> pageData.relativePath]

\* LRUCache.get: the value, and the key becomes the most recently used
Touched(order, key) == SelectSeq(order, LAMBDA k : k # key) \o <<key>>

\* LRUCache.set: the least recently used key is evicted at capacity
CacheSet(key, value) ==
    LET full == key \notin DOMAIN cache /\ Len(lru) >= CacheMax
        kept == IF full THEN DOMAIN cache \ {Head(lru)} ELSE DOMAIN cache
        order == IF full THEN Tail(lru) ELSE lru
    IN  /\ cache' = [k \in kept \cup {key} |->
                        IF k = key THEN value ELSE cache[k]]
        /\ lru' = Touched(order, key)

PureIdle == input = Undefined /\ output = Undefined /\ step = "idle"

Init ==
    /\ cache = << >>
    /\ lru = << >>
    /\ files = Paths
    /\ sep \in {"/", "\\"}
    /\ inv = [p \in Procs |-> Idle]
    /\ PureIdle

\* lines 36-42: the source is cached; the cached result is returned as is
CompileHit(p, src, file) ==
    /\ src \in DOMAIN cache
    /\ inv' = [inv EXCEPT ![p] = [Idle EXCEPT !.pc = "returned", !.src = src,
                                  !.file = file, !.hit = TRUE,
                                  !.result = cache[src]]]
    /\ lru' = Touched(lru, src)
    /\ UNCHANGED <<cache, files>>

\* line 48: md.render throws
CompileRenderError(p, src, file) ==
    /\ src \notin DOMAIN cache
    /\ RenderFails(src)
    /\ inv' = [inv EXCEPT ![p] = [Idle EXCEPT !.pc = "failed", !.src = src,
                                  !.file = file, !.renders = 1,
                                  !.error = "RenderError"]]
    /\ UNCHANGED <<cache, lru, files>>

\* faulty variant: a failing fs.statSync swallowed, lastUpdated left 0
CompileStatIgnored(p, src, file) ==
    /\ src \notin DOMAIN cache
    /\ ~RenderFails(src)
    /\ file \notin files
    /\ LET pageData == PageData(src, Slash(Relative(Root, file, sep)), 0)
           result == [vueSrc |-> PlainVueSrc(pageData), pageData |-> pageData]
       IN  /\ inv' = [inv EXCEPT ![p] = [Idle EXCEPT !.pc = "returned",
                                         !.src = src, !.file = file,
                                         !.renders = 1, !.pageData = pageData,
                                         !.result = result]]
           /\ CacheSet(src, result)
    /\ UNCHANGED files

\* line 63: fs.statSync throws on a missing file
CompileStatError(p, src, file) ==
    /\ src \notin DOMAIN cache
    /\ ~RenderFails(src)
    /\ file \notin files
    /\ inv' = [inv EXCEPT ![p] = [Idle EXCEPT !.pc = "failed", !.src = src,
                                  !.file = file, !.renders = 1,
                                  !.error = "ENOENT"]]
    /\ UNCHANGED <<cache, lru, files>>

\* lines 44-82 without a demo block: no await is reached, the result is
\* stored and returned in the same turn
CompilePlain(p, src, file) ==
    /\ src \notin DOMAIN cache
    /\ ~RenderFails(src)
    /\ file \in files
    /\ ~HasDemo(src)
    /\ LET pageData == PageData(src, Slash(Relative(Root, file, sep)),
                                MtimeUs(file))
           result == [vueSrc |-> PlainVueSrc(pageData), pageData |-> pageData]
       IN  /\ inv' = [inv EXCEPT ![p] = [Idle EXCEPT !.pc = "returned",
                                         !.src = src, !.file = file,
                                         !.renders = 1, !.pageData = pageData,
                                         !.result = result]]
           /\ CacheSet(src, result)
    /\ UNCHANGED files

\* lines 44-66 and 91-105 with a demo block: the invocation suspends at
\* await tsToJs(scriptContent)
CompileDemo(p, src, file) ==
    /\ src \notin DOMAIN cache
    /\ ~RenderFails(src)
    /\ file \in files
    /\ HasDemo(src)
    /\ LET pageData == PageData(src, Slash(Relative(Root, file, sep)),
                                MtimeUs(file))
       IN  inv' = [inv EXCEPT ![p] = [Idle EXCEPT !.pc = "transpiling",
                                      !.src = src, !.file = file,
                                      !.renders = 2, !.transpiled = TRUE,
                                      !.pageData = pageData]]
    /\ UNCHANGED <<cache, lru, files>>

Compile(p, src, file) ==
    /\ inv[p].pc = "idle"
    /\ UNCHANGED <<sep, input, output, step>>
    /\ \/ CompileHit(p, src, file)
       \/ CompileRenderError(p, src, file)
       \/ CompileStatError(p, src, file)
       \/ CompilePlain(p, src, file)
       \/ CompileDemo(p, src, file)

\* faulty variant: the page data stored before the transpiler is awaited
ResumeTranspileErrorCached(p) ==
    /\ TranspileFails(inv[p].src)
    /\ inv' = [inv EXCEPT ![p].pc = "failed", ![p].pageData = Undefined,
                          ![p].error = "TranspileError"]
    /\ CacheSet(inv[p].src,
                [vueSrc |-> Undefined, pageData |-> inv[p].pageData])
    /\ UNCHANGED files

\* line 105: tsToJs rejects; nothing catches it
ResumeTranspileError(p) ==
    /\ TranspileFails(inv[p].src)
    /\ inv' = [inv EXCEPT ![p].pc = "failed", ![p].pageData = Undefined,
                          ![p].error = "TranspileError"]
    /\ UNCHANGED <<cache, lru, files>>

\* lines 105-146 and 76-82: the rest of genComponentCode, then cache.set
ResumeDone(p) ==
    /\ ~TranspileFails(inv[p].src)
    /\ LET pageData == inv[p].pageData
           result == [vueSrc |-> DemoVueSrc(pageData), pageData |-> pageData]
       IN  /\ inv' = [inv EXCEPT ![p].pc = "returned", ![p].renders = 3,
                                 ![p].result = result]
           /\ CacheSet(inv[p].src, result)
    /\ UNCHANGED files

Resume(p) ==
    /\ inv[p].pc = "transpiling"
    /\ UNCHANGED <<sep, input, output, step>>
    /\ \/ ResumeTranspileError(p)
       \/ ResumeDone(p)

\* index.ts 15-18: transform hands vueSrc (or the error) on to Vite
Settle(p) ==
    /\ inv[p].pc \in {"returned", "failed"}
    /\ inv' = [inv EXCEPT ![p] = Idle]
    /\ UNCHANGED <<cache, lru, files, sep, input, output, step>>

\* the file system, outside the program: a file is created or removed
Create(file) ==
    /\ file \notin files
    /\ files' = files \cup {file}
    /\ UNCHANGED <<cache, lru, sep, inv, input, output, step>>

Unlink(file) ==
    /\ file \in files
    /\ files' = files \ {file}
    /\ UNCHANGED <<cache, lru, sep, inv, input, output, step>>

Next ==
    \/ \E p \in Procs, src \in Sources, file \in Paths : Compile(p, src, file)
    \/ \E p \in Procs : Resume(p)
    \/ \E p \in Procs : Settle(p)
    \/ \E file \in Paths : Create(file)
    \/ \E file \in Paths : Unlink(file)

Spec == Init /\ [][Next]_vars

(***************************************************************************)
(* The pure functions, each run on inputs drawn from a bounded set         *)
(***************************************************************************)
CompileIdle ==
    /\ cache = << >>
    /\ lru = << >>
    /\ files = Paths
    /\ sep = "/"
    /\ inv = [p \in Procs |-> Idle]

compileVars == <<cache, lru, files, sep, inv>>

\* the texts made of at most n of the fragments
RECURSIVE Concats(_, _)
Concats(frags, n) ==
    IF n = 0 THEN {Empty}
    ELSE LET shorter == Concats(frags, n - 1)
         IN  shorter \cup {a \o f : a \in shorter, f \in frags}

CodeWrappedTag == <<Backtick>> \o Str("<a>") \o <<Backtick>>

\* --- the template escaper, applied and applied again
MaxEscapeFrags == 3

EscapeFrags ==
    {Str("import.meta"), Str("process.env"), Str("import."), Str("meta"),
     Str("process."), Str("env"), Str("<wbr/>"), Str("x")}

InitEscape ==
    /\ CompileIdle
    /\ input \in Concats(EscapeFrags, MaxEscapeFrags)
    /\ output = Undefined
    /\ step = "start"

Escape ==
    /\ step = "start"
    /\ output' = [first |-> EscapeTemplate(input), second |-> Undefined]
    /\ step' = "once"
    /\ UNCHANGED <<compileVars, input>>

EscapeAgain ==
    /\ step = "once"
    /\ output' = [output EXCEPT !.second = EscapeTemplate(output.first)]
    /\ step' = "twice"
    /\ UNCHANGED <<compileVars, input>>

NextEscape == Escape \/ EscapeAgain

SpecEscape == InitEscape /\ [][NextEscape]_vars

\* --- the header sanitizer
MaxHeaderFrags == 3

HeaderFrags ==
    {CodeWrappedTag, Str("<a>"), Str(" b"), Str("b"), <<Backtick>>,
     Str("\\"), Str("**"), Str("&lt;"), Str(" ")}

InitHeader ==
    /\ CompileIdle
    /\ input \in Concats(HeaderFrags, MaxHeaderFrags)
    /\ output = Undefined
    /\ step = "start"

Sanitize ==
    /\ step = "start"
    /\ output' = [stripped |-> removeNonCodeWrappedHTML(input),
                  shallow |-> parseHeader(input),
                  deep |-> deeplyParseHeader(input)]
    /\ step' = "done"
    /\ UNCHANGED <<compileVars, input>>

NextHeader == Sanitize

SpecHeader == InitHeader /\ [][NextHeader]_vars

\* --- title inference
MaxTitleFrags == 3

TitleFrags ==
    {Str("# Hello"), Str("## Sub"), Str("\n"), Str("text"), Str(" "),
     Str("#")}

Titles ==
    {Undefined, Empty, Str("T"), CodeWrappedTag \o Str(" b"), Str("<a> b")}

InitTitle ==
    /\ CompileIdle
    /\ input \in [frontmatter : [home : BOOLEAN, title : Titles],
                  content : Concats(TitleFrags, MaxTitleFrags)]
    /\ output = Undefined
    /\ step = "start"

ApplyInferTitle ==
    /\ step = "start"
    /\ output' = inferTitle(input.frontmatter, input.content)
    /\ step' = "done"
    /\ UNCHANGED <<compileVars, input>>

NextTitle == ApplyInferTitle

SpecTitle == InitTitle /\ [][NextTitle]_vars

\* --- description inference
MaxHead == 3

HeadAttrs ==
    [name : {Str("description"), Str("author")},
     content : {Empty, Str("X"), Str("Y")}]
    \cup [name : {Str("description"), Str("author")}]

HeadEntries ==
    {<<tag>> : tag \in {Str("meta"), Str("link")}}
    \cup {<<tag, attrs>> : tag \in {Str("meta"), Str("link")},
                           attrs \in HeadAttrs}

RECURSIVE SeqsUpTo(_, _)
SeqsUpTo(S, n) ==
    IF n = 0 THEN {<< >>}
    ELSE LET shorter == SeqsUpTo(S, n - 1)
         IN  shorter \cup {Append(q, e) : q \in shorter, e \in S}

InitDescription ==
    /\ CompileIdle
    /\ input \in [home : {FALSE}, title : {Undefined}]
                 \cup [home : {FALSE}, title : {Undefined},
                       head : SeqsUpTo(HeadEntries, MaxHead)]
    /\ output = Undefined
    /\ step = "start"

ApplyInferDescription ==
    /\ step = "start"
    /\ output' = inferDescription(input)
    /\ step' = "done"
    /\ UNCHANGED <<compileVars, input>>

NextDescription == ApplyInferDescription

SpecDescription == InitDescription /\ [][NextDescription]_vars

\* --- the vanilla variant of a demo: the parts fetchCode cut out of the demo
\* source, and what ESLint reports for the transpiled script
DemoInputs ==
    [template : {Empty, Str("<template>t</template>"),
                 Str("<template>\n  <p>t</p>\n</template>")},
     scriptContent : {Empty, Str("type T = number"),
                      Str("const a: T = 1")},
     lint : {Undefined, Empty, Str(" \n"), Str("const a = 1\n"),
             Str("const a = 1")},
     style : {Empty, Str("<style>s</style>"),
              Str("<style scoped>\n.a {}\n</style>")}]

InitDemo ==
    /\ CompileIdle
    /\ input \in DemoInputs
    /\ output = Undefined
    /\ step = "start"

GenVanilla ==
    /\ step = "start"
    /\ LET js == tsToJs(input.scriptContent, input.lint)
       IN  output' = [transpiled |-> js,
                      jsSourceCode |-> jsSourceCode(input.template,
                                                    WrapScript(js),
                                                    input.style)]
    /\ step' = "done"
    /\ UNCHANGED <<compileVars, input>>

NextDemo == GenVanilla

SpecDemo == InitDemo /\ [][NextDemo]_vars

(***************************************************************************)
(* Properties                                                              *)
(***************************************************************************)
Starts(p) == inv[p].pc = "idle" /\ inv'[p].pc # "idle"

\* C1: once a compile of S has completed and S is still cached, a later
\* compile of S returns a result identical to that first one and calls
\* neither the renderer nor the transpiler.
C1_SecondCompileIdentical ==
    [][\A p, q \in Procs :
          (/\ inv[p].pc = "returned"
           /\ inv[p].src \in DOMAIN cache
           /\ Starts(q)
           /\ inv'[q].src = inv[p].src)
          => (/\ inv'[q].pc = "returned"
              /\ inv'[q].result = inv[p].result
              /\ inv'[q].renders = 0
              /\ ~inv'[q].transpiled)]_vars

\* C2: the cache never holds an entry for a failed compile: a step in which
\* a compile fails leaves the cache as it was, every entry written is the
\* result a cache-missing compile of that very source returns in the same
\* step, and no source on which a collaborator throws is ever cached.
C2_NoFailedCompileCached ==
    [][/\ \A p \in Procs :
             (inv[p].pc # "failed" /\ inv'[p].pc = "failed")
             => (cache' = cache /\ lru' = lru)
       /\ \A s \in DOMAIN cache' :
             (IF s \in DOMAIN cache THEN cache'[s] # cache[s] ELSE TRUE)
             => \E p \in Procs :
                   /\ inv[p].pc \in {"idle", "transpiling"}
                   /\ inv'[p].pc = "returned"
                   /\ ~inv'[p].hit
                   /\ inv'[p].src = s
                   /\ inv'[p].result = cache'[s]
       /\ \A s \in DOMAIN cache' : ~RenderFails(s) /\ ~TranspileFails(s)]_vars

\* a compile failed on a missing file and a retry of the same source and
\* file, the file being back, recomputed and returned
C2_Witness ==
    \E p, q \in Procs :
        /\ inv[p].pc = "failed"
        /\ inv[p].error = "ENOENT"
        /\ inv[q].pc = "returned"
        /\ ~inv[q].hit
        /\ inv[q].src = inv[p].src
        /\ inv[q].file = inv[p].file
        /\ cache[inv[q].src] = inv[q].result

\* C3: two compiles of the same source that both missed the cache (they were
\* in flight together) write equal values, whatever files they were called
\* with, and the cached value equals what either returned.
C3_ConcurrentWritesAgree ==
    \A p, q \in Procs :
        (/\ inv[p].pc = "returned" /\ ~inv[p].hit
         /\ inv[q].pc = "returned" /\ ~inv[q].hit
         /\ inv[p].src = inv[q].src)
        => (/\ inv[p].result = inv[q].result
            /\ inv[p].src \in DOMAIN cache
               => cache[inv[p].src] = inv[p].result)

\* C4: the relativePath a compile returns is the path of the file it was
\* called with, relative to the root, with forward slashes.
C4_RelativePathOfOwnFile ==
    \A p \in Procs :
        inv[p].pc = "returned"
        => inv[p].result.pageData.relativePath
               = Relative(Root, inv[p].file, "/")

\* heading level of the marker at line start i (0: none), as
\* /^\s*#+\s+/m reads it
HeadingLevelAt(s, i) ==
    LET a == SpaceRun(s, i)
        h == CharRun(s, a + 1, "#")
    IN  IF h >= a + 1 /\ SpaceRun(s, h + 1) >= h + 1 THEN h - a ELSE 0

HeadingLines(s, levels) ==
    {i \in 1..(Len(s) + 1) :
        IsLineStart(s, i) /\ HeadingLevelAt(s, i) \in levels}

\* the title the precedence chain gives when the heading branch looks at
\* the headings of the given levels
ChainTitle(fm, content, levels) ==
    IF fm.home THEN Str("Home")
    ELSE IF fm.title # Undefined /\ fm.title # Empty
         THEN deeplyParseHeader(fm.title)
    ELSE IF HeadingLines(content, levels) # {}
         THEN LET i == Min(HeadingLines(content, levels))
                  from == SpaceRun(content,
                              CharRun(content, SpaceRun(content, i) + 1, "#")
                              + 1) + 1
              IN  deeplyParseHeader(
                      Trim(SubSeq(content, from, DotRun(content, from))))
         ELSE Empty

\* C5 as stated: home flag, then a frontmatter title, then the first
\* top-level heading (one #), then the empty string.
C5_TopLevelHeadingChain ==
    step = "done"
    => output = ChainTitle(input.frontmatter, input.content, {1})

\* C5 as amended: the heading branch takes the first heading of any level.
C5_AnyLevelHeadingChain ==
    step = "done"
    => output = ChainTitle(input.frontmatter, input.content,
                           1..(Len(input.content) + 1))

\* no home flag, no title, and the first heading is below the top level:
\* its text is the title
C5_Witness ==
    /\ step = "done"
    /\ ~input.frontmatter.home
    /\ input.frontmatter.title = Undefined
    /\ HeadingLines(input.content, {1}) = {}
    /\ HeadingLines(input.content, {2}) # {}
    /\ output = Str("Sub")

CodeWrappedInput == CodeWrappedTag \o Str(" b")

\* C6 as stated: a tag wrapped in backticks passes the HTML stripping, the
\* shallow pipeline and so the deep sanitizer unchanged (but for trimming).
C6_CodeWrappedUnchanged ==
    (step = "done" /\ input = CodeWrappedInput)
    => (/\ output.stripped = input
        /\ output.shallow = Trim(input)
        /\ output.deep = input)

\* C6 as amended: the HTML stripping leaves it unchanged; the shallow
\* pipeline then removes the backtick pair, so the deep sanitizer gives
\* <a> b: the tag kept, the backticks gone.
C6_CodeWrappedKeepsTag ==
    (step = "done" /\ input = CodeWrappedInput)
    => (/\ output.stripped = input
        /\ output.shallow = Str("<a> b")
        /\ output.deep = Str("<a> b"))

C6_Witness ==
    /\ step = "done"
    /\ input = CodeWrappedInput
    /\ output.stripped = CodeWrappedInput
    /\ output.deep # Empty

\* C7: escaping an escaped text changes nothing, and no reserved sequence
\* is left after one application.
C7_EscapeIdempotent ==
    /\ step = "once"
       => (/\ ~Contains(output.first, Str("import.meta"))
           /\ ~Contains(output.first, Str("process.env")))
    /\ step = "twice" => output.second = output.first

\* a text holding both reserved sequences, escaped twice
C7_Witness ==
    /\ step = "twice"
    /\ Contains(input, Str("import.meta"))
    /\ Contains(input, Str("process.env"))
    /\ Contains(output.second, Str("import.<wbr/>meta"))
    /\ Contains(output.second, Str("process.<wbr/>env"))

\* the head entry qualifies: tag meta, name description, non-empty content
Qualifies(entry) ==
    /\ entry[1] = Str("meta")
    /\ Len(entry) = 2
    /\ "name" \in DOMAIN entry[2]
    /\ entry[2].name = Str("description")
    /\ "content" \in DOMAIN entry[2]
    /\ entry[2].content # Empty

\* C8: the description is empty without a head list or a qualifying entry,
\* and the content of the first qualifying entry otherwise.
C8_DescriptionFromFirstMeta ==
    step = "done"
    => IF "head" \notin DOMAIN input
          \/ \A i \in 1..Len(input.head) : ~Qualifies(input.head[i])
       THEN output = Empty
       ELSE \E i \in 1..Len(input.head) :
               /\ Qualifies(input.head[i])
               /\ \A j \in 1..(i - 1) : ~Qualifies(input.head[j])
               /\ output = input.head[i][2].content

\* an author entry first, then two description entries: the first of the
\* two is the description
C8_Witness ==
    /\ step = "done"
    /\ "head" \in DOMAIN input
    /\ Len(input.head) = 3
    /\ input.head[1] = <<Str("meta"),
                         [name |-> Str("author"), content |-> Str("X")]>>
    /\ Qualifies(input.head[2])
    /\ Qualifies(input.head[3])
    /\ input.head[2][2].content # input.head[3][2].content
    /\ output = input.head[2][2].content

\* C9: with an empty or absent transpiler result the vanilla variant holds
\* no script wrapper and is the template block followed by the style block;
\* otherwise the wrapper appears once, between the two.
C9_VanillaScriptWrapper ==
    step = "done"
    => IF output.transpiled = Undefined \/ output.transpiled = Empty
       THEN /\ Occurrences(output.jsSourceCode, Str("<script")) = 0
            /\ Occurrences(output.jsSourceCode, Str("</script>")) = 0
            /\ output.jsSourceCode
                   = Trim(input.template \o Str("\n\n") \o input.style)
       ELSE /\ Occurrences(output.jsSourceCode, Str("<script>")) = 1
            /\ Occurrences(output.jsSourceCode, Str("</script>")) = 1
            /\ output.jsSourceCode
                   = Trim(input.template \o Str("\n<script>\n")
                          \o output.transpiled \o Str("\n</script>\n")
                          \o input.style)

\* a script of type annotations only, for which ESLint reports no output:
\* template and style, nothing between them
C9_Witness ==
    /\ step = "done"
    /\ input.scriptContent = Str("type T = number")
    /\ output.transpiled = Undefined
    /\ input.template # Empty
    /\ input.style # Empty
    /\ output.jsSourceCode = input.template \o Str("\n\n") \o input.style

\* C10 as stated: whenever a compile is called with a file the file-stat
\* call fails for, the invocation fails and returns no result.
C10_MissingFileAlwaysFails ==
    [][\A p \in Procs :
          (Starts(p) /\ inv'[p].file \notin files)
          => (inv'[p].pc = "failed" /\ inv'[p].result = NoResult)]_vars

\* C10 as amended: on a cache miss a render or file-stat failure fails the
\* invocation with no result, as does a transpile failure later; on a cache
\* hit the cached result is returned and no collaborator is consulted.
C10_FailuresSurfaceOnMiss ==
    [][\A p \in Procs :
          /\ (/\ Starts(p)
              /\ inv'[p].src \notin DOMAIN cache
              /\ (inv'[p].file \notin files \/ RenderFails(inv'[p].src)))
             => (inv'[p].pc = "failed" /\ inv'[p].result = NoResult)
          /\ (/\ inv[p].pc = "transpiling"
              /\ inv'[p].pc # "transpiling"
              /\ TranspileFails(inv[p].src))
             => (inv'[p].pc = "failed" /\ inv'[p].result = NoResult)
          /\ (Starts(p) /\ inv'[p].src \in DOMAIN cache)
             => (/\ inv'[p].pc = "returned"
                 /\ inv'[p].result = cache[inv'[p].src]
                 /\ inv'[p].renders = 0)]_vars

\* each of the three failures has surfaced
C10_Witness ==
    /\ \E p \in Procs : inv[p].pc = "failed" /\ inv[p].error = "ENOENT"
    /\ \E p \in Procs :
          inv[p].pc = "failed"
          /\ inv[p].error \in {"RenderError", "TranspileError"}

====
